---- MODULE Spec2Model ----
(***************************************************************************)
(* Menu storage of swim_traing_app (src/lib/kv-storage.ts): saveMenu,      *)
(* getMenu, getMenuHistory and searchSimilarMenus over a Blob Store (JSON  *)
(* documents addressed by URL) and a Pointer Store (the Redis key          *)
(* menu:indexUrl).  Every await of the source is one atomic step of a      *)
(* client process, so concurrent invocations interleave at their awaits.   *)
(*                                                                         *)
(* Representation.  A JavaScript string that the code takes apart or puts  *)
(* together (ids, stringified numbers, joined load levels) is a tuple of   *)
(* one-character strings: "30" is <<"3","0">>.  Opaque strings (titles)    *)
(* are TLA+ strings.  A field of a menu document is Absent (undefined) or  *)
(* Val(x), x the string, number or array it holds.                         *)
(***************************************************************************)
EXTENDS Integers, Sequences, FiniteSets, TLC

\* ------------------------------------------------------------------ bounds
MaxSaves == 2        \* saveMenu invocations started in one behaviour of Spec
MaxReads == 1        \* read invocations started in one behaviour of Spec
MaxClock == 2        \* latest value of the clock read by new Date()
MaxIndexLen == 6     \* longest index document drawn by InitRead
MaxMixedLen == 3     \* longest index document InitRead draws over every kind of entry

\* ------------------------------------------------------------- JS values
Procs == {1, 2}

Absent == [has |-> FALSE]
Val(x) == [has |-> TRUE, v |-> x]
EmptyStr == <<>>

DigitChars == <<"0", "1", "2", "3", "4", "5", "6", "7", "8", "9">>
HexChars == DigitChars \o <<"a", "b", "c", "d", "e", "f">>
UpperHex == DigitChars \o <<"A", "B", "C", "D", "E", "F">>
\* the characters parseInt skips (StrWhiteSpaceChar): white space and line
\* terminators.  A character outside ASCII, and the vertical tab, is written
\* by its code point: "U+2028" is the one character U+2028.
WhiteSpace ==
    {" ", "\t", "\n", "\r", "\f", "U+000B", "U+00A0", "U+FEFF", "U+1680",
     "U+2000", "U+2001", "U+2002", "U+2003", "U+2004", "U+2005", "U+2006", "U+2007",
     "U+2008", "U+2009", "U+200A", "U+2028", "U+2029", "U+202F", "U+205F", "U+3000"}
IsDigit(c, radix) == \E d \in 1..radix : HexChars[d] = c \/ UpperHex[d] = c
DigitValue(c) == (CHOOSE d \in 1..16 : HexChars[d] = c \/ UpperHex[d] = c) - 1

\* Number.prototype.toString() of an integer
RECURSIVE NatToString(_)
NatToString(n) ==
    IF n < 10 THEN <<DigitChars[n + 1]>>
    ELSE NatToString(n \div 10) \o <<DigitChars[(n % 10) + 1]>>
NumToString(n) == IF n < 0 THEN <<"-">> \o NatToString(0 - n) ELSE NatToString(n)

\* parseInt(s) with no radix given: leading white space, an optional sign, an
\* optional 0x or 0X (then the radix is 16), then the longest prefix of
\* digits; Absent stands for NaN (there is no digit)
RECURSIVE SkipSpace(_, _)
SkipSpace(s, i) == IF i <= Len(s) /\ s[i] \in WhiteSpace THEN SkipSpace(s, i + 1) ELSE i
RECURSIVE ParseDigits(_, _, _, _)
ParseDigits(s, i, radix, acc) ==
    IF i > Len(s) \/ ~IsDigit(s[i], radix) THEN acc
    ELSE ParseDigits(s, i + 1, radix, acc * radix + DigitValue(s[i]))
ParseInt(s) ==
    LET start == SkipSpace(s, 1)
        neg == start <= Len(s) /\ s[start] = "-"
        signed == start <= Len(s) /\ s[start] \in {"-", "+"}
        from == IF signed THEN start + 1 ELSE start
        hex == from + 1 <= Len(s) /\ s[from] = "0" /\ s[from + 1] \in {"x", "X"}
        radix == IF hex THEN 16 ELSE 10
        first == IF hex THEN from + 2 ELSE from
    IN  IF first > Len(s) \/ ~IsDigit(s[first], radix) THEN Absent
        ELSE IF neg THEN Val(0 - ParseDigits(s, first, radix, 0))
        ELSE Val(ParseDigits(s, first, radix, 0))

\* Array.prototype.join(',')
RECURSIVE Join(_)
Join(a) ==
    IF Len(a) = 0 THEN EmptyStr
    ELSE IF Len(a) = 1 THEN a[1]
    ELSE a[1] \o <<",">> \o Join(Tail(a))

\* String.prototype.includes
Includes(s, t) ==
    \E i \in 0..(Len(s) - Len(t)) : SubSeq(s, i + 1, i + Len(t)) = t

\* ------------------------------------------------------------------ URLs
\* A URL is the path the document was written under plus what the store made
\* of it: sfx = 0 is https://jf4nttkr91b0.blob.vercel-storage.com/<path>, the
\* URL getMenu's direct access pattern guesses; sfx > 0 is any other URL.
\* A path is the string of its characters: 'menus/index.json' is the path
\* `menus/${menuId}.json` of the id "index".
MenusDir == <<"m", "e", "n", "u", "s", "/">>
JsonExt == <<".", "j", "s", "o", "n">>
IndexId == <<"i", "n", "d", "e", "x">>
INDEX_FILE_NAME == MenusDir \o IndexId \o JsonExt
MenuPath(menuId) == MenusDir \o menuId \o JsonExt
Url(path, sfx) == [path |-> path, sfx |-> sfx]
NoUrl == Url(EmptyStr, 0)
DirectUrl(menuId) == Url(MenuPath(menuId), 0)
\* String.prototype.replace with a string pattern: the first occurrence of t
\* in s gives way to r
Replace(s, t, r) ==
    IF Includes(s, t)
    THEN LET i == CHOOSE i \in 0..(Len(s) - Len(t)) :
                    /\ SubSeq(s, i + 1, i + Len(t)) = t
                    /\ \A j \in 0..(i - 1) : SubSeq(s, j + 1, j + Len(t)) # t
         IN  SubSeq(s, 1, i) \o r \o SubSeq(s, i + Len(t) + 1, Len(s))
    ELSE s
\* menuDataUrl.replace("menus/", ""): the host of a URL does not hold "menus/"
AlternativeUrl(u) == Url(Replace(u.path, MenusDir, EmptyStr), u.sfx)

\* ------------------------------------------------------------- documents
MenuDoc(title, duration, loadLevels, totalTime) ==
    [title |-> title, duration |-> duration, loadLevels |-> loadLevels,
     totalTime |-> totalTime, notes |-> Absent, intensity |-> Absent,
     targetSkills |-> Absent, aiModel |-> Absent]

SprintSet == MenuDoc(Val("Sprint Set"), Val(30), Val(<< <<"A">> >>), Val(30))
LongSet == MenuDoc(Val("Long Set"), Val(37), Val(<< <<"A">>, <<"B">> >>), Val(40))
BareDoc == MenuDoc(Absent, Absent, Absent, Absent)
Docs == {SprintSet, BareDoc}

\* the ids saved and looked up: an id, an id that contains it, and the id
\* whose document path is the path of the index
Ids == {<<"a">>, <<"a", "b">>, IndexId}

\* x || dflt for a string-valued field: the string when there is one and it
\* is not empty
OrElse(x, dflt) == IF x.has /\ x.v # "" THEN x.v ELSE dflt
\* x ? x.toString() : "0" for a number-valued field
NumberField(x) == IF x.has /\ x.v # 0 THEN NumToString(x.v) ELSE <<"0">>

\* saveMenu's metadata object (lines 111-121)
MenuMetadata(menuData, now) ==
    [loadLevels |-> IF menuData.loadLevels.has THEN Join(menuData.loadLevels.v) ELSE EmptyStr,
     duration |-> NumberField(menuData.duration),
     notes |-> OrElse(menuData.notes, ""),
     createdAt |-> now,
     totalTime |-> NumberField(menuData.totalTime),
     intensity |-> OrElse(menuData.intensity, ""),
     targetSkills |-> IF menuData.targetSkills.has THEN menuData.targetSkills.v ELSE <<>>,
     title |-> OrElse(menuData.title, "Untitled"),
     aiModel |-> OrElse(menuData.aiModel, "Unknown")]

\* the object saveMenu pushes; by is not data of the program: it names the
\* saveMenu invocation that built the entry (0: not built by a modelled save)
IndexEntry(menuId, metadata, menuDataUrl, by) ==
    [id |-> menuId, metadata |-> metadata, menuDataUrl |-> menuDataUrl, by |-> by]

EmptyIndex == <<>>

\* ----------------------------------------------------------------- state
VARIABLES
    blob,             \* Blob Store: the documents, by URL
    pointer,          \* what redis.get('menu:indexUrl') resolves to, NoUrl when nothing
    addRandomSuffix,  \* whether a write returns a URL other than the nominal one
    faults,           \* whether store calls may fail in this behaviour
    redis,            \* the Pointer Store client: "upstash", or the "stub" of lines 15-18
    nextSfx,          \* the suffix the next suffixed write returns
    clock,            \* the time new Date() reads
    saves,            \* saveMenu invocations started so far
    reads,            \* read invocations started so far
    persisted,        \* history: the index and pointer writes that landed, in order
    pc,               \* per process: the await it stands at
    op,               \* per process: the invocation it runs and its arguments
    loc,              \* per process: the locals of the invocation
    ret               \* per process: what the invocation returned

vars == <<blob, pointer, addRandomSuffix, faults, redis, nextSfx, clock, saves, reads, persisted, pc, op, loc, ret>>

\* ------------------------------------------------------ Blob Store client
\* by is not data of the program: it names the saveMenu invocation that wrote
\* the document (0: not written by a modelled save)
MenuBlob(doc, by) == [type |-> "menu", doc |-> doc, by |-> by]
IndexBlob(menus) == [type |-> "index", menus |-> menus]

\* the JSON document a fetch of the stored document resolves to
Body(stored) == IF stored.type = "menu" THEN stored.doc ELSE [menus |-> stored.menus]

\* the URL saveJsonToBlob(data, path) returns
PutUrl(path) == IF addRandomSuffix THEN Url(path, nextSfx) ELSE Url(path, 0)
\* the store after saveJsonToBlob(data, path) succeeded
PutBlob(path, data) == (PutUrl(path) :> data) @@ blob
\* getJsonFromBlob(url) through handleBlobError: the document, or null
\* (Absent) when the call fails or nothing is stored at url
GetBlob(url, ok) == IF ok /\ url \in DOMAIN blob THEN Val(blob[url]) ELSE Absent

\* how a store call can end: it succeeds (TRUE) or fails
Outcomes == IF faults THEN BOOLEAN ELSE {TRUE}
\* how a call of redis can end: the stub's get and set always resolve
RedisOutcomes == IF redis = "stub" THEN {TRUE} ELSE Outcomes

Call(fn, url, ok) == [fn |-> fn, url |-> url, ok |-> ok]

\* ------------------------------------------------------- results, locals
Pending == [kind |-> "pending"]
Thrown == [kind |-> "thrown"]
Void == [kind |-> "void"]
Null == [kind |-> "null"]
Value(v) == [kind |-> "value", v |-> v]

NoOp == [name |-> "none", menuId |-> <<>>, menuData |-> BareDoc, query |-> <<>>,
         duration |-> 0, by |-> 0]
NoLoc == [indexFileUrl |-> NoUrl, newIndexUrl |-> NoUrl, indexData |-> EmptyIndex, menuDataUrl |-> NoUrl,
          i |-> 0, results |-> <<>>, from |-> <<>>, fetched |-> {}, calls |-> <<>>,
          seen |-> {}, after |-> {}, noMenus |-> FALSE]
\* Of the locals, indexFileUrl (getIndexData's), newIndexUrl (saveMenu's
\* indexFileUrl), indexData, menuDataUrl, i and results are the code's; the
\* rest is history: from (the index position each result came
\* from), fetched (the positions searchSimilarMenus fetched), calls (the calls
\* of the invocation on its two clients, with their outcome), seen (the saves
\* whose index write had landed when saveMenu got its index), after (the
\* saves that had returned when a read was called), noMenus (getIndexData
\* returned a document that has no menus; indexData then keeps no list).

\* ------------------------------------------------------------ getMenu
\* Array.prototype.find over the index (lines 153-155): the position of the
\* first entry that matches, 0 when none does
\* mutant: only an equal id matches
IdMatches_ExactOnly(entryId, menuId) == entryId = menuId

IdMatches(entryId, menuId) ==
    entryId = menuId \/ Includes(entryId, menuId) \/ Includes(menuId, entryId)
Find(menus, menuId) ==
    IF \E i \in 1..Len(menus) : IdMatches(menus[i].id, menuId)
    THEN CHOOSE i \in 1..Len(menus) :
            /\ IdMatches(menus[i].id, menuId)
            /\ \A j \in 1..(i - 1) : ~IdMatches(menus[j].id, menuId)
    ELSE 0

\* ----------------------------------------------------- getMenuHistory
HistoryItem(menu) ==
    [id |-> menu.id, loadLevels |-> menu.metadata.loadLevels,
     duration |-> menu.metadata.duration, notes |-> menu.metadata.notes,
     createdAt |-> menu.metadata.createdAt, totalTime |-> menu.metadata.totalTime,
     intensity |-> menu.metadata.intensity, targetSkills |-> menu.metadata.targetSkills,
     title |-> menu.metadata.title, aiModel |-> menu.metadata.aiModel]

\* mutant: the comparator is a.createdAt - b.createdAt, oldest first
RECURSIVE InsertByDate_Ascending(_, _)
InsertByDate_Ascending(sorted, x) ==
    IF Len(sorted) = 0 THEN <<x>>
    ELSE IF Head(sorted).createdAt <= x.createdAt
         THEN <<Head(sorted)>> \o InsertByDate_Ascending(Tail(sorted), x)
         ELSE <<x>> \o sorted

\* the JavaScript values of the encoded fields of a history record: strings,
\* as saveMenu stored them (join and toString, lines 112, 113 and 116; the
\* interface at lines 22-37) and as the spread of line 200 copies them
JsString(s) == [typeof |-> "string", value |-> s]
EncodedFields(item) ==
    [loadLevels |-> JsString(item.loadLevels), duration |-> JsString(item.duration),
     totalTime |-> JsString(item.totalTime)]

\* Array.prototype.sort with (a, b) => b.createdAt - a.createdAt: a stable
\* sort, most recent first
RECURSIVE InsertByDate(_, _)
InsertByDate(sorted, x) ==
    IF Len(sorted) = 0 THEN <<x>>
    ELSE IF Head(sorted).createdAt >= x.createdAt
         THEN <<Head(sorted)>> \o InsertByDate(Tail(sorted), x)
         ELSE <<x>> \o sorted
RECURSIVE SortByDate(_)
SortByDate(items) ==
    IF Len(items) = 0 THEN <<>>
    ELSE InsertByDate(SortByDate(SubSeq(items, 1, Len(items) - 1)), items[Len(items)])

MenuHistory(menus) == SortByDate([i \in 1..Len(menus) |-> HistoryItem(menus[i])])

\* ------------------------------------------------- searchSimilarMenus
\* menuDuration >= duration * 0.8 && menuDuration <= duration * 1.2 (line
\* 223), in tenths (for whole numbers the comparisons of the doubles come out
\* as the exact ones do); a NaN menuDuration fails both comparisons
\* mutant: the upper end of the window is not tested
InWindow_LowerOnly(metadata, duration) ==
    LET menuDuration == ParseInt(metadata.duration)
    IN  menuDuration.has /\ menuDuration.v * 10 >= duration * 8

InWindow(metadata, duration) ==
    LET menuDuration == ParseInt(metadata.duration)
    IN  /\ menuDuration.has
        /\ menuDuration.v * 10 >= duration * 8
        /\ menuDuration.v * 10 <= duration * 12
\* the next entry at or after position from that the loop fetches;
\* Len(menus) + 1 when the loop is over
NextInWindow(menus, from, duration) ==
    IF \E i \in from..Len(menus) : InWindow(menus[i].metadata, duration)
    THEN CHOOSE i \in from..Len(menus) :
            /\ InWindow(menus[i].metadata, duration)
            /\ \A j \in from..(i - 1) : ~InWindow(menus[j].metadata, duration)
    ELSE Len(menus) + 1

\* ----------------------------------------------------------- the steps
\* the invocation of p ends with result r
Finish(p, r, l) ==
    /\ pc' = [pc EXCEPT ![p] = "done"]
    /\ ret' = [ret EXCEPT ![p] = r]
    /\ loc' = [loc EXCEPT ![p] = l]
\* the invocation of p goes on to the await at
Goto(p, at, l) ==
    /\ pc' = [pc EXCEPT ![p] = at]
    /\ loc' = [loc EXCEPT ![p] = l]
    /\ UNCHANGED ret

\* the saves that returned: their redis.set resolved, on the Pointer Store
\* ("pointer") or on the stub ("stub")
Returned ==
    {persisted[k][2] : k \in {j \in 1..Len(persisted) : persisted[j][1] \in {"pointer", "stub"}}}
\* the save ids whose index write has landed
IndexWritten == {persisted[k][2] : k \in {j \in 1..Len(persisted) : persisted[j][1] = "index"}}

\* saveMenu after getIndexData returned menus (lines 110-128): the metadata,
\* stamped with the time now, and the push
SaveAfterIndex(p, menus, l, now) ==
    LET entry == IndexEntry(op[p].menuId, MenuMetadata(op[p].menuData, now),
                            l.menuDataUrl, op[p].by)
    IN  Goto(p, "writeIndex",
             [l EXCEPT !.indexData = Append(menus, entry), !.seen = IndexWritten])

\* getMenu after getIndexData returned menus (lines 147-171)
GetMenuAfterIndex(p, menus, l) ==
    LET i == Find(menus, op[p].menuId)
    IN  IF Len(menus) = 0 THEN Finish(p, Null, l)
        ELSE IF i = 0 THEN Finish(p, Null, [l EXCEPT !.indexData = menus])
        ELSE IF menus[i].menuDataUrl = NoUrl
             THEN Finish(p, Null, [l EXCEPT !.indexData = menus, !.i = i])
        ELSE Goto(p, "fetchMenu",
                  [l EXCEPT !.indexData = menus, !.i = i,
                            !.menuDataUrl = menus[i].menuDataUrl])

\* getMenuHistory after getIndexData returned menus (lines 198-206)
HistoryAfterIndex(p, menus, l) ==
    Finish(p, Value(MenuHistory(menus)), [l EXCEPT !.indexData = menus])

\* searchSimilarMenus from position from of the loop (lines 218-232): up to
\* the next await, or to the return
SearchFrom(p, menus, from, l) ==
    LET i == NextInWindow(menus, from, op[p].duration)
    IN  IF i > Len(menus) THEN Finish(p, Value(l.results), [l EXCEPT !.i = i])
        ELSE Goto(p, "searchFetch", [l EXCEPT !.i = i])

\* getIndexData returned menus to the invocation of p
AfterIndex(p, menus, l) ==
    CASE op[p].name = "save" -> SaveAfterIndex(p, menus, l, clock)
      [] op[p].name \in {"getMenu", "getMenuDirect"} -> GetMenuAfterIndex(p, menus, l)
      [] op[p].name = "history" -> HistoryAfterIndex(p, menus, l)
      [] op[p].name = "search" -> SearchFrom(p, menus, 1, [l EXCEPT !.indexData = menus])

\* getIndexData returned a document without menus (line 88 returns whatever
\* truthy document the fetch gave): getMenu tests for it (line 147);
\* indexData.menus.push (line 124), indexData.menus.map (line 198) and the
\* for-of over indexData.menus (line 218) throw a TypeError that leaves
\* saveMenu, getMenuHistory and searchSimilarMenus
AfterNoMenus(p, l) ==
    IF op[p].name \in {"getMenu", "getMenuDirect"}
    THEN Finish(p, Null, [l EXCEPT !.noMenus = TRUE])
    ELSE Finish(p, Thrown, [l EXCEPT !.noMenus = TRUE])

\* getIndexData returned the document it fetched
AfterFetched(p, indexData, l) ==
    IF "menus" \in DOMAIN indexData THEN AfterIndex(p, indexData.menus, l)
    ELSE AfterNoMenus(p, l)

\* getIndexData, first await (line 68): redis.get; a rejection is caught at
\* line 89, an unset key returns at line 72 (the stub's get resolves null,
\* line 16: pointer is NoUrl as long as redis is the stub)
GetIndexUrl(p) ==
    /\ pc[p] = "getIndexUrl"
    /\ \E ok \in RedisOutcomes :
        LET l == [loc[p] EXCEPT !.calls = Append(@, Call("redis.get", NoUrl, ok))]
        IN  IF ok /\ pointer # NoUrl
            THEN Goto(p, "fetchIndex", [l EXCEPT !.indexFileUrl = pointer])
            ELSE AfterIndex(p, EmptyIndex, l)
    /\ UNCHANGED <<blob, pointer, addRandomSuffix, faults, redis, nextSfx, clock, saves, reads, persisted, op>>

\* mutant: the index fetch is not wrapped in handleBlobError nor in the try
FetchIndex_Unhandled(p) ==
    /\ pc[p] = "fetchIndex"
    /\ \E ok \in Outcomes :
        LET indexData == GetBlob(loc[p].indexFileUrl, ok)
            l == [loc[p] EXCEPT
                    !.calls = Append(@, Call("getJsonFromBlob", loc[p].indexFileUrl,
                                             indexData.has))]
        IN  IF indexData.has THEN AfterFetched(p, Body(indexData.v), l)
            ELSE Finish(p, Thrown, l)
    /\ UNCHANGED <<blob, pointer, addRandomSuffix, faults, redis, nextSfx, clock, saves, reads, persisted, op>>

\* mutant: a failed index fetch makes getIndexData unset menu:indexUrl
FetchIndex_ClearPointer(p) ==
    /\ pc[p] = "fetchIndex"
    /\ \E ok \in Outcomes :
        LET indexData == GetBlob(loc[p].indexFileUrl, ok)
            l == [loc[p] EXCEPT
                    !.calls = Append(@, Call("getJsonFromBlob", loc[p].indexFileUrl,
                                             indexData.has))]
        IN  IF indexData.has
            THEN AfterFetched(p, Body(indexData.v), l) /\ UNCHANGED pointer
            ELSE AfterIndex(p, EmptyIndex, l) /\ pointer' = NoUrl
    /\ UNCHANGED <<blob, addRandomSuffix, faults, redis, nextSfx, clock, saves, reads, persisted, op>>

\* getIndexData, second await (line 78): the index document, or null
FetchIndex(p) ==
    /\ pc[p] = "fetchIndex"
    /\ \E ok \in Outcomes :
        LET indexData == GetBlob(loc[p].indexFileUrl, ok)
            l == [loc[p] EXCEPT
                    !.calls = Append(@, Call("getJsonFromBlob", loc[p].indexFileUrl,
                                             indexData.has))]
        IN  IF indexData.has THEN AfterFetched(p, Body(indexData.v), l)
            ELSE AfterIndex(p, EmptyIndex, l)
    /\ UNCHANGED <<blob, pointer, addRandomSuffix, faults, redis, nextSfx, clock, saves, reads, persisted, op>>

\* Clients are anonymous: a call is taken by the first free process
Free(p) == pc[p] = "idle" /\ \A q \in Procs : q < p => pc[q] # "idle"

\* saveMenu is called (line 102)
StartSave(p) ==
    /\ pc[p] = "idle"
    /\ saves < MaxSaves
    /\ \E menuId \in Ids, menuData \in Docs :
        op' = [op EXCEPT ![p] = [NoOp EXCEPT !.name = "save", !.menuId = menuId,
                                            !.menuData = menuData, !.by = saves + 1]]
    /\ saves' = saves + 1
    /\ pc' = [pc EXCEPT ![p] = "writeMenu"]
    /\ ret' = [ret EXCEPT ![p] = Pending]
    /\ UNCHANGED <<blob, pointer, addRandomSuffix, faults, redis, nextSfx, clock, reads, persisted, loc>>

\* mutant: a failed document write is swallowed and saveMenu goes on with
\* the URL derived from the path
WriteMenu_Swallow(p) ==
    /\ pc[p] = "writeMenu"
    /\ \E ok \in Outcomes :
        LET path == MenuPath(op[p].menuId)
            l == [loc[p] EXCEPT !.calls = Append(@, Call("saveJsonToBlob", Url(path, 0), ok))]
        IN  IF ok
            THEN /\ blob' = PutBlob(path, MenuBlob(op[p].menuData, op[p].by))
                 /\ nextSfx' = IF addRandomSuffix THEN nextSfx + 1 ELSE nextSfx
                 /\ Goto(p, "getIndexUrl", [l EXCEPT !.menuDataUrl = PutUrl(path)])
            ELSE /\ Goto(p, "getIndexUrl", [l EXCEPT !.menuDataUrl = Url(path, 0)])
                 /\ UNCHANGED <<blob, nextSfx>>
    /\ UNCHANGED <<pointer, addRandomSuffix, faults, redis, clock, saves, reads, persisted, op>>

\* saveMenu, first await (line 104): the document write; a rejection leaves
\* saveMenu
WriteMenu(p) ==
    /\ pc[p] = "writeMenu"
    /\ \E ok \in Outcomes :
        LET path == MenuPath(op[p].menuId)
            l == [loc[p] EXCEPT !.calls = Append(@, Call("saveJsonToBlob", Url(path, 0), ok))]
        IN  IF ok
            THEN /\ blob' = PutBlob(path, MenuBlob(op[p].menuData, op[p].by))
                 /\ nextSfx' = IF addRandomSuffix THEN nextSfx + 1 ELSE nextSfx
                 /\ Goto(p, "getIndexUrl", [l EXCEPT !.menuDataUrl = PutUrl(path)])
            ELSE /\ Finish(p, Thrown, l)
                 /\ UNCHANGED <<blob, nextSfx>>
    /\ UNCHANGED <<pointer, addRandomSuffix, faults, redis, clock, saves, reads, persisted, op>>

\* mutant: a failed index write is swallowed and saveMenu goes on
WriteIndex_Swallow(p) ==
    /\ pc[p] = "writeIndex"
    /\ \E ok \in Outcomes :
        LET l == [loc[p] EXCEPT
                    !.calls = Append(@, Call("saveJsonToBlob", Url(INDEX_FILE_NAME, 0), ok))]
        IN  IF ok
            THEN /\ blob' = PutBlob(INDEX_FILE_NAME, IndexBlob(loc[p].indexData))
                 /\ nextSfx' = IF addRandomSuffix THEN nextSfx + 1 ELSE nextSfx
                 /\ persisted' = Append(persisted, <<"index", op[p].by>>)
                 /\ Goto(p, "setIndexUrl", [l EXCEPT !.newIndexUrl = PutUrl(INDEX_FILE_NAME)])
            ELSE /\ Goto(p, "setIndexUrl", l)
                 /\ UNCHANGED <<blob, nextSfx, persisted>>
    /\ UNCHANGED <<pointer, addRandomSuffix, faults, redis, clock, saves, reads, op>>

\* mutant: the index write that ends in a rejection has replaced the
\* document at its URL
WriteIndex_LandsThenRejects(p) ==
    /\ pc[p] = "writeIndex"
    /\ \E ok \in Outcomes :
        LET l == [loc[p] EXCEPT
                    !.calls = Append(@, Call("saveJsonToBlob", Url(INDEX_FILE_NAME, 0), ok))]
        IN  /\ blob' = PutBlob(INDEX_FILE_NAME, IndexBlob(loc[p].indexData))
            /\ nextSfx' = IF addRandomSuffix THEN nextSfx + 1 ELSE nextSfx
            /\ IF ok
               THEN /\ persisted' = Append(persisted, <<"index", op[p].by>>)
                    /\ Goto(p, "setIndexUrl", [l EXCEPT !.newIndexUrl = PutUrl(INDEX_FILE_NAME)])
               ELSE /\ Finish(p, Thrown, l)
                    /\ UNCHANGED persisted
    /\ UNCHANGED <<pointer, addRandomSuffix, faults, redis, clock, saves, reads, op>>

\* saveMenu, the index write (line 131)
WriteIndex(p) ==
    /\ pc[p] = "writeIndex"
    /\ \E ok \in Outcomes :
        LET l == [loc[p] EXCEPT
                    !.calls = Append(@, Call("saveJsonToBlob", Url(INDEX_FILE_NAME, 0), ok))]
        IN  IF ok
            THEN /\ blob' = PutBlob(INDEX_FILE_NAME, IndexBlob(loc[p].indexData))
                 /\ nextSfx' = IF addRandomSuffix THEN nextSfx + 1 ELSE nextSfx
                 /\ persisted' = Append(persisted, <<"index", op[p].by>>)
                 /\ Goto(p, "setIndexUrl", [l EXCEPT !.newIndexUrl = PutUrl(INDEX_FILE_NAME)])
            ELSE /\ Finish(p, Thrown, l)
                 /\ UNCHANGED <<blob, nextSfx, persisted>>
    /\ UNCHANGED <<pointer, addRandomSuffix, faults, redis, clock, saves, reads, op>>

\* mutant: the pointer gets the URL getIndexData read, not the URL of the
\* index just written
SetIndexUrl_StaleUrl(p) ==
    /\ pc[p] = "setIndexUrl"
    /\ \E ok \in RedisOutcomes :
        LET l == [loc[p] EXCEPT !.calls = Append(@, Call("redis.set", loc[p].indexFileUrl, ok))]
        IN  IF ok
            THEN /\ pointer' = IF redis = "stub" THEN pointer ELSE loc[p].indexFileUrl
                 /\ persisted' = Append(persisted, <<IF redis = "stub" THEN "stub" ELSE "pointer",
                                                      op[p].by>>)
                 /\ Finish(p, Void, l)
            ELSE /\ Finish(p, Thrown, l)
                 /\ UNCHANGED <<pointer, persisted>>
    /\ UNCHANGED <<blob, addRandomSuffix, faults, redis, nextSfx, clock, saves, reads, op>>

\* saveMenu, the pointer write (line 134); the stub's set resolves and
\* keeps nothing (line 17)
SetIndexUrl(p) ==
    /\ pc[p] = "setIndexUrl"
    /\ \E ok \in RedisOutcomes :
        LET l == [loc[p] EXCEPT !.calls = Append(@, Call("redis.set", loc[p].newIndexUrl, ok))]
        IN  IF ok
            THEN /\ pointer' = IF redis = "stub" THEN pointer ELSE loc[p].newIndexUrl
                 /\ persisted' = Append(persisted, <<IF redis = "stub" THEN "stub" ELSE "pointer",
                                                      op[p].by>>)
                 /\ Finish(p, Void, l)
            ELSE /\ Finish(p, Thrown, l)
                 /\ UNCHANGED <<pointer, persisted>>
    /\ UNCHANGED <<blob, addRandomSuffix, faults, redis, nextSfx, clock, saves, reads, op>>

\* the ids looked up
QueryIds == Ids

\* getMenu is called (line 140)
StartGetMenu(p) ==
    /\ pc[p] = "idle"
    /\ reads < MaxReads
    /\ reads' = reads + 1
    /\ \E menuId \in QueryIds :
        op' = [op EXCEPT ![p] = [NoOp EXCEPT !.name = "getMenu", !.menuId = menuId]]
    /\ pc' = [pc EXCEPT ![p] = "getIndexUrl"]
    /\ ret' = [ret EXCEPT ![p] = Pending]
    /\ loc' = [loc EXCEPT ![p] = [NoLoc EXCEPT !.after = Returned]]
    /\ UNCHANGED <<blob, pointer, addRandomSuffix, faults, redis, nextSfx, clock, saves, persisted>>

\* mutant: the test of the fetched document is inverted
FetchMenu_Inverted(p) ==
    /\ pc[p] = "fetchMenu"
    /\ \E ok \in Outcomes :
        LET menuData == GetBlob(loc[p].menuDataUrl, ok)
            l == [loc[p] EXCEPT
                    !.calls = Append(@, Call("getJsonFromBlob", loc[p].menuDataUrl,
                                             menuData.has))]
        IN  Finish(p, Null, l)
    /\ UNCHANGED <<blob, pointer, addRandomSuffix, faults, redis, nextSfx, clock, saves, reads, persisted, op>>

\* mutant: the fetch is not wrapped in handleBlobError and its failure
\* leaves getMenu as a rejection
FetchMenu_Unhandled(p) ==
    /\ pc[p] = "fetchMenu"
    /\ \E ok \in Outcomes :
        LET menuData == GetBlob(loc[p].menuDataUrl, ok)
            l == [loc[p] EXCEPT
                    !.calls = Append(@, Call("getJsonFromBlob", loc[p].menuDataUrl,
                                             menuData.has))]
        IN  IF menuData.has THEN Finish(p, Value(Body(menuData.v)), l)
            ELSE Finish(p, Thrown, l)
    /\ UNCHANGED <<blob, pointer, addRandomSuffix, faults, redis, nextSfx, clock, saves, reads, persisted, op>>

\* getMenu, the document fetch (line 172; line 422 in the second getMenu,
\* which goes on to the alternative URL when the fetch fails)
FetchMenu(p) ==
    /\ pc[p] = "fetchMenu"
    /\ \E ok \in Outcomes :
        LET menuData == GetBlob(loc[p].menuDataUrl, ok)
            l == [loc[p] EXCEPT
                    !.calls = Append(@, Call("getJsonFromBlob", loc[p].menuDataUrl,
                                             menuData.has))]
        IN  IF menuData.has THEN Finish(p, Value(Body(menuData.v)), l)
            ELSE IF op[p].name = "getMenuDirect" THEN Goto(p, "altFetch", l)
            ELSE Finish(p, Null, l)
    /\ UNCHANGED <<blob, pointer, addRandomSuffix, faults, redis, nextSfx, clock, saves, reads, persisted, op>>

\* the second getMenu is called (line 373)
StartGetMenuDirect(p) ==
    /\ pc[p] = "idle"
    /\ reads < MaxReads
    /\ reads' = reads + 1
    /\ \E menuId \in QueryIds :
        op' = [op EXCEPT ![p] = [NoOp EXCEPT !.name = "getMenuDirect", !.menuId = menuId]]
    /\ pc' = [pc EXCEPT ![p] = "directFetch"]
    /\ ret' = [ret EXCEPT ![p] = Pending]
    /\ loc' = [loc EXCEPT ![p] = [NoLoc EXCEPT !.after = Returned]]
    /\ UNCHANGED <<blob, pointer, addRandomSuffix, faults, redis, nextSfx, clock, saves, persisted>>

\* the second getMenu, direct access (lines 378-392)
DirectFetch(p) ==
    /\ pc[p] = "directFetch"
    /\ \E ok \in Outcomes :
        LET directUrl == DirectUrl(op[p].menuId)
            directData == GetBlob(directUrl, ok)
            l == [loc[p] EXCEPT
                    !.calls = Append(@, Call("getJsonFromBlob", directUrl, directData.has))]
        IN  IF directData.has THEN Finish(p, Value(Body(directData.v)), l)
            ELSE Goto(p, "getIndexUrl", l)
    /\ UNCHANGED <<blob, pointer, addRandomSuffix, faults, redis, nextSfx, clock, saves, reads, persisted, op>>

\* the second getMenu, the alternative URL (lines 427-441)
AltFetch(p) ==
    /\ pc[p] = "altFetch"
    /\ \E ok \in Outcomes :
        LET alternativeUrl == AlternativeUrl(loc[p].menuDataUrl)
            altData == GetBlob(alternativeUrl, ok)
            l == [loc[p] EXCEPT
                    !.calls = Append(@, Call("getJsonFromBlob", alternativeUrl, altData.has))]
        IN  IF altData.has THEN Finish(p, Value(Body(altData.v)), l)
            ELSE Finish(p, Null, l)
    /\ UNCHANGED <<blob, pointer, addRandomSuffix, faults, redis, nextSfx, clock, saves, reads, persisted, op>>

\* getMenuHistory is called (line 194)
StartHistory(p) ==
    /\ pc[p] = "idle"
    /\ reads < MaxReads
    /\ reads' = reads + 1
    /\ op' = [op EXCEPT ![p] = [NoOp EXCEPT !.name = "history"]]
    /\ pc' = [pc EXCEPT ![p] = "getIndexUrl"]
    /\ ret' = [ret EXCEPT ![p] = Pending]
    /\ loc' = [loc EXCEPT ![p] = [NoLoc EXCEPT !.after = Returned]]
    /\ UNCHANGED <<blob, pointer, addRandomSuffix, faults, redis, nextSfx, clock, saves, persisted>>

Queries == {<<"A">>, <<"x">>}
Durations == {25, 30, 37}

\* searchSimilarMenus is called (line 212)
StartSearch(p) ==
    /\ pc[p] = "idle"
    /\ reads < MaxReads
    /\ reads' = reads + 1
    /\ \E query \in Queries, duration \in Durations :
        op' = [op EXCEPT ![p] = [NoOp EXCEPT !.name = "search", !.query = query,
                                            !.duration = duration]]
    /\ pc' = [pc EXCEPT ![p] = "getIndexUrl"]
    /\ ret' = [ret EXCEPT ![p] = Pending]
    /\ loc' = [loc EXCEPT ![p] = [NoLoc EXCEPT !.after = Returned]]
    /\ UNCHANGED <<blob, pointer, addRandomSuffix, faults, redis, nextSfx, clock, saves, persisted>>

\* searchSimilarMenus, the fetch of entry i (lines 224-227), then the loop
\* up to the next fetch
SearchFetch(p) ==
    /\ pc[p] = "searchFetch"
    /\ \E ok \in Outcomes :
        LET menu == loc[p].indexData[loc[p].i]
            menuData == GetBlob(menu.menuDataUrl, ok)
            l == [loc[p] EXCEPT
                    !.calls = Append(@, Call("getJsonFromBlob", menu.menuDataUrl,
                                             menuData.has)),
                    !.fetched = @ \cup {loc[p].i},
                    !.results = IF menuData.has THEN Append(@, Body(menuData.v)) ELSE @,
                    !.from = IF menuData.has THEN Append(@, loc[p].i) ELSE @]
        IN  SearchFrom(p, loc[p].indexData, loc[p].i + 1, l)
    /\ UNCHANGED <<blob, pointer, addRandomSuffix, faults, redis, nextSfx, clock, saves, reads, persisted, op>>

\* time passes (the clock new Date() reads at line 115)
Tick ==
    /\ clock < MaxClock
    /\ clock' = clock + 1
    /\ UNCHANGED <<blob, pointer, addRandomSuffix, faults, redis, nextSfx, saves, reads, persisted, pc, op, loc, ret>>

\* the caller takes the result; the process is free for its next call
Return(p) ==
    /\ pc[p] = "done"
    /\ pc' = [pc EXCEPT ![p] = "idle"]
    /\ op' = [op EXCEPT ![p] = NoOp]
    /\ loc' = [loc EXCEPT ![p] = NoLoc]
    /\ ret' = [ret EXCEPT ![p] = Pending]
    /\ UNCHANGED <<blob, pointer, addRandomSuffix, faults, redis, nextSfx, clock, saves, reads, persisted>>

\* --------------------------------------------------- the specification
Init ==
    /\ blob = << >>
    /\ pointer = NoUrl
    /\ addRandomSuffix \in BOOLEAN
    /\ faults \in BOOLEAN
    /\ redis \in {"upstash", "stub"}
    /\ nextSfx = 1
    /\ clock = 0
    /\ saves = 0
    /\ reads = 0
    /\ persisted = <<>>
    /\ pc = [p \in Procs |-> "idle"]
    /\ op = [p \in Procs |-> NoOp]
    /\ loc = [p \in Procs |-> NoLoc]
    /\ ret = [p \in Procs |-> Pending]

Next ==
    \E p \in Procs :
        \/ Free(p) /\ StartSave(p)
        \/ WriteMenu(p)
        \/ GetIndexUrl(p)
        \/ FetchIndex(p)
        \/ WriteIndex(p)
        \/ SetIndexUrl(p)
        \/ Free(p) /\ StartGetMenu(p)
        \/ FetchMenu(p)
        \/ Return(p)

\* two clients whose invocations overlap, all within one tick of the clock
Spec == Init /\ [][Next]_vars

\* one client: every invocation returns before the next is called; time
\* passes between and within the invocations
NextSeq ==
    \/ StartSave(1)
    \/ WriteMenu(1)
    \/ GetIndexUrl(1)
    \/ FetchIndex(1)
    \/ WriteIndex(1)
    \/ SetIndexUrl(1)
    \/ StartGetMenu(1)
    \/ FetchMenu(1)
    \/ StartHistory(1)
    \/ Return(1)
    \/ Tick

SpecSeq == Init /\ [][NextSeq]_vars

\* one client and stores whose calls all succeed (redis is the Upstash
\* client or the stub, as in Init)
InitNoFaults == Init /\ faults = FALSE
SpecSeqNoFaults == InitNoFaults /\ [][NextSeq]_vars

\* ------------------------------------------- reads over a stored index
\* The read operations take whatever index document the stores hold.  InitRead
\* draws it: entries as saveMenu builds them (MenuMetadata of the document
\* they point at), an entry whose menuDataUrl is missing (getMenu tests for
\* it at line 163), in any order and with repeated ids; the entry of a save
\* under the id "index", whose document the index write then replaced, at the
\* head of the index; or, in place of the index, the document a save under
\* the id "index" wrote over it.
PoolEntry(menuId, doc, sfx, createdAt) ==
    IndexEntry(menuId, MenuMetadata(doc, createdAt), Url(MenuPath(menuId), sfx), 0)
NoUrlEntry == [PoolEntry(<<"a", "b">>, BareDoc, 0, 2) EXCEPT !.menuDataUrl = NoUrl]
InWindowEntry == PoolEntry(<<"a">>, SprintSet, 0, 0)
OutOfWindowEntry == PoolEntry(<<"a", "b">>, LongSet, 1, 1)
EntryPool ==
    {InWindowEntry, OutOfWindowEntry, NoUrlEntry,
     PoolEntry(<<"a">>, LongSet, 1, 1), PoolEntry(<<"a", "b">>, SprintSet, 0, 2)}
LongPool == {InWindowEntry, OutOfWindowEntry}
IndexIdEntry == PoolEntry(IndexId, SprintSet, 0, 1)
\* the entry of a save under the id "menus/a": its document is at
\* menus/menus/a.json, and the alternative URL of that is the URL of the
\* document of the id "a"
PrefixedEntry == PoolEntry(MenusDir \o <<"a">>, LongSet, 0, 1)

SeqsOver(S, lo, hi) == UNION {[1..n -> S] : n \in lo..hi}
DrawnIndexes ==
    SeqsOver(EntryPool, 0, MaxMixedLen)
        \cup SeqsOver(LongPool, MaxMixedLen + 1, MaxIndexLen)
        \cup {<<head>> \o rest : head \in {IndexIdEntry, PrefixedEntry},
                                   rest \in SeqsOver(EntryPool, 0, MaxMixedLen - 1)}

\* the documents behind the pool's URLs
PoolBlobs ==
    [u \in {Url(MenuPath(id), sfx) : id \in {<<"a">>, <<"a", "b">>}, sfx \in {0, 1}} |->
        MenuBlob(IF u.sfx = 0 THEN SprintSet ELSE LongSet, 0)]
        @@ (PrefixedEntry.menuDataUrl :> MenuBlob(LongSet, 0))
StoredIndexUrl == Url(INDEX_FILE_NAME, 0)
\* what the stores hold at the URL of the index
DrawnAtIndexUrl == {IndexBlob(menus) : menus \in DrawnIndexes} \cup {MenuBlob(SprintSet, 0)}

InitRead ==
    /\ \E stored \in DrawnAtIndexUrl : blob = (StoredIndexUrl :> stored) @@ PoolBlobs
    /\ redis \in {"upstash", "stub"}
    /\ pointer \in IF redis = "stub" THEN {NoUrl} ELSE {NoUrl, StoredIndexUrl}
    /\ addRandomSuffix = FALSE
    /\ faults = TRUE
    /\ nextSfx = 1
    /\ clock = 0
    /\ saves = 0
    /\ reads = 0
    /\ persisted = <<>>
    /\ pc = [p \in Procs |-> "idle"]
    /\ op = [p \in Procs |-> NoOp]
    /\ loc = [p \in Procs |-> NoLoc]
    /\ ret = [p \in Procs |-> Pending]

\* one client reads; reads change nothing, so clients that read side by
\* side see what this one sees
NextRead ==
    \/ GetIndexUrl(1)
    \/ FetchIndex(1)
    \/ StartGetMenu(1)
    \/ FetchMenu(1)
    \/ StartGetMenuDirect(1)
    \/ DirectFetch(1)
    \/ AltFetch(1)
    \/ StartHistory(1)
    \/ StartSearch(1)
    \/ SearchFetch(1)
    \/ Return(1)

SpecRead == InitRead /\ [][NextRead]_vars

\* ------------------------------------------------------------ the claims
\* the index reached through the Pointer Store: the entries of the index
\* document at the URL it holds, none when that URL holds no index document
Published ==
    IF pointer # NoUrl /\ pointer \in DOMAIN blob /\ blob[pointer].type = "index"
    THEN blob[pointer].menus
    ELSE EmptyIndex

Done(p, name) == pc[p] = "done" /\ op[p].name = name
\* the invocation of p has returned a value to its caller
Got(p, name) == Done(p, name) /\ ret[p].kind = "value"
\* the menu document the save by wrote is what the store holds at url
HoldsDocOf(url, by) == url \in DOMAIN blob /\ blob[url].type = "menu" /\ blob[url].by = by
\* every store call of the invocation of p succeeded
AllOk(p) == \A k \in 1..Len(loc[p].calls) : loc[p].calls[k].ok
\* the index has an entry built by the save by
HasEntryOf(menus, by) == \E i \in 1..Len(menus) : menus[i].by = by
IsPrefix(s, t) == Len(s) <= Len(t) /\ \A i \in 1..Len(s) : t[i] = s[i]
\* the first position of menus whose id matches menuId, in the claims' words
IsFirstMatch(menus, i, menuId) ==
    /\ i \in 1..Len(menus)
    /\ menus[i].id = menuId \/ Includes(menus[i].id, menuId) \/ Includes(menuId, menus[i].id)
    /\ \A j \in 1..(i - 1) :
        ~(menus[j].id = menuId \/ Includes(menus[j].id, menuId) \/ Includes(menuId, menus[j].id))

\* a getMenu(id) of p that was called after the save(id, doc) of q had
\* returned without a failure, and whose store calls all succeeded
GetAfterSave(p, q) ==
    /\ Done(p, "getMenu") /\ AllOk(p)
    /\ Done(q, "save") /\ ret[q] = Void
    /\ op[q].by \in loc[p].after
    /\ op[q].menuId = op[p].menuId

\* C1 as stated: once save(id, doc) has completed without a failure, a later
\* getById(id) whose store calls all succeed returns a document equal to doc.
\* Read on the behaviours in which no store call fails at all, the Pointer
\* Store client was constructed, and the document and the index are still
\* where the saves wrote them, so that the violation owes nothing to a failed
\* load, to the stub or to a write over a document.
C1_RoundTrip ==
    \A p, q \in Procs :
        /\ ~faults /\ redis = "upstash"
        /\ GetAfterSave(p, q) /\ ~loc[p].noMenus
        /\ HoldsDocOf(loc[q].menuDataUrl, op[q].by)
        => ret[p] = Value(op[q].menuData)

\* C1 amended: such a getById(id) returns doc whenever the first entry of the
\* index it loaded whose id equals, contains or is contained in id is the
\* entry that save added and the document that save wrote is still what the
\* Blob Store holds at that entry's URL (no later write went to that URL).
C1_RoundTripFirstMatch ==
    \A p, q \in Procs :
        GetAfterSave(p, q) =>
            \A i \in 1..Len(loc[p].indexData) :
                /\ IsFirstMatch(loc[p].indexData, i, op[p].menuId)
                /\ loc[p].indexData[i].by = op[q].by
                /\ HoldsDocOf(loc[q].menuDataUrl, op[q].by)
                => ret[p] = Value(op[q].menuData)

\* C1 witness: a lookup after a save of the same id found that save's entry
\* behind an earlier entry of another save and returned the saved document.
C1_Witness ==
    \E p, q \in Procs :
        /\ GetAfterSave(p, q)
        /\ Len(loc[p].indexData) = 2
        /\ IsFirstMatch(loc[p].indexData, 2, op[p].menuId)
        /\ loc[p].indexData[2].by = op[q].by
        /\ ret[p] = Value(op[q].menuData)
        /\ op[q].menuData = SprintSet

\* C2 as stated: the index is append-only; every step leaves the entries of
\* the published index in place, unchanged and in the same order.
C2_AppendOnly == [][IsPrefix(Published, Published')]_vars

\* two saves that have both returned without a failure and that both got
\* their index before the index write of the other landed
RacingSaves(p, q) ==
    /\ p # q
    /\ Done(p, "save") /\ ret[p] = Void
    /\ Done(q, "save") /\ ret[q] = Void
    /\ op[q].by \notin loc[p].seen
    /\ op[p].by \notin loc[q].seen
\* when the write of that kind by save by landed
Landed(kind, by) == CHOOSE k \in 1..Len(persisted) : persisted[k] = <<kind, by>>
\* the document the save of q wrote is what the Blob Store holds at the URL
\* its write returned
DocumentInPlace(q) == HoldsDocOf(loc[q].menuDataUrl, op[q].by)
\* the published index has the entry of p and not that of q, whose document
\* is still in the Blob Store
Discards(p, q) ==
    /\ HasEntryOf(Published, op[p].by)
    /\ ~HasEntryOf(Published, op[q].by)
    /\ DocumentInPlace(q)
\* the URLs the writes of the save of p returned
WrittenUrls(p) == {loc[p].menuDataUrl, loc[p].newIndexUrl}

\* C3 as stated: of two saves racing on the index, the one whose index write
\* landed last has its entry in the published index and the other has not,
\* while the other's document is still in the Blob Store.  Read on the
\* behaviours in which the Pointer Store client was constructed and the
\* other's document is where its save wrote it, so that the violation owes
\* nothing to the stub or to a write over a document.
C3_LastIndexWriteWins ==
    \A p, q \in Procs :
        /\ RacingSaves(p, q) /\ redis = "upstash" /\ DocumentInPlace(q)
        /\ Landed("index", op[p].by) > Landed("index", op[q].by)
        => Discards(p, q)

\* C3 amended: with the Pointer Store client constructed, the published
\* index has the entry of exactly one of the two saves, the one whose index
\* document the Pointer Store ends up naming: the save whose pointer write
\* landed last when the two index writes returned different URLs, the save
\* whose index write landed last when they returned the same URL; with the
\* stub in its place no index is published.  The document of either save is
\* what the Blob Store holds at the URL its write returned unless another
\* write of the two saves returned that URL: the document write of the other
\* save, or an index write.
C3_LastPublishedWins ==
    \A p, q \in Procs :
        RacingSaves(p, q) =>
            /\ redis = "stub" => Published = EmptyIndex
            /\ redis = "upstash" =>
                LET kind == IF loc[p].newIndexUrl = loc[q].newIndexUrl
                            THEN "index" ELSE "pointer"
                IN  Landed(kind, op[p].by) > Landed(kind, op[q].by) =>
                        /\ HasEntryOf(Published, op[p].by)
                        /\ ~HasEntryOf(Published, op[q].by)
            /\ loc[q].menuDataUrl \notin WrittenUrls(p) \cup {loc[q].newIndexUrl}
                => DocumentInPlace(q)
            /\ loc[q].menuDataUrl \in DOMAIN blob

\* C3 witness: two racing saves whose index writes returned different URLs;
\* the save that wrote its index first and its pointer last is the one
\* published, and the document of the other is in place.
C3_Witness ==
    \E p, q \in Procs :
        /\ RacingSaves(p, q)
        /\ redis = "upstash"
        /\ Landed("index", op[p].by) < Landed("index", op[q].by)
        /\ Landed("pointer", op[p].by) > Landed("pointer", op[q].by)
        /\ Discards(p, q)

\* C3, the case of the exception: of two racing saves on a store that returns
\* one URL per path, the one that lost its entry saved the id "index", and
\* what the store holds at the URL of its document is the index.
C3_ReplacedCase ==
    \E p, q \in Procs :
        /\ RacingSaves(p, q) /\ redis = "upstash"
        /\ HasEntryOf(Published, op[p].by) /\ ~HasEntryOf(Published, op[q].by)
        /\ op[q].menuId = IndexId
        /\ ~DocumentInPlace(q)

\* the index write of a save: its second saveJsonToBlob
IndexWriteFailed(p) ==
    \E k \in 2..Len(loc[p].calls) :
        /\ loc[p].calls[k] = Call("saveJsonToBlob", Url(INDEX_FILE_NAME, 0), FALSE)
PointerWriteFailed(p) ==
    \E k \in 1..Len(loc[p].calls) :
        loc[p].calls[k].fn = "redis.set" /\ ~loc[p].calls[k].ok

\* C4: a save whose index write or pointer write failed ends in a thrown
\* failure and never reports success, and after a failed index write the
\* Pointer Store is not written by that save.
C4_WritePathPropagates ==
    \A p \in Procs :
        op[p].name = "save" =>
            /\ IndexWriteFailed(p) \/ PointerWriteFailed(p)
                => pc[p] = "done" /\ ret[p] = Thrown
            /\ IndexWriteFailed(p) =>
                /\ \A k \in 1..Len(loc[p].calls) : loc[p].calls[k].fn # "redis.set"
                /\ \A k \in 1..Len(persisted) : persisted[k] # <<"pointer", op[p].by>>

\* C4 witness: a save threw because its index write failed after its
\* document write had succeeded, and the Pointer Store is still unset.
C4_Witness ==
    \E p \in Procs :
        /\ Done(p, "save") /\ IndexWriteFailed(p) /\ ret[p] = Thrown
        /\ loc[p].menuDataUrl \in DOMAIN blob
        /\ pointer = NoUrl

\* a save whose document write succeeded and whose persist step then failed
PersistFailed(p) ==
    /\ Done(p, "save") /\ ret[p] = Thrown
    /\ IndexWriteFailed(p) \/ PointerWriteFailed(p)

\* C5 as stated: after a failed persist the document is in the Blob Store and
\* the published index has no entry added by that save.  Read on the
\* behaviours in which the document is where the save wrote it, so that the
\* violation owes nothing to a write over the document.
C5_OrphanOnFailedPersist ==
    \A p \in Procs :
        PersistFailed(p) /\ DocumentInPlace(p) =>
            /\ DocumentInPlace(p)
            /\ ~HasEntryOf(Published, op[p].by)

\* what the Blob Store holds at the URL of the document of p was put there by
\* a later write to the same URL, on a store that returns one URL per path:
\* an index write, the id of p being "index", or another save's document
\* write
WrittenOver(p) ==
    /\ ~addRandomSuffix
    /\ loc[p].menuDataUrl \in DOMAIN blob
    /\ blob[loc[p].menuDataUrl].type = "index" => op[p].menuId = IndexId
    /\ blob[loc[p].menuDataUrl].type = "menu" => blob[loc[p].menuDataUrl].by # op[p].by

\* C5 amended: after a failed persist the document is what the Blob Store
\* holds at the URL its write returned unless a later write went to that URL,
\* and the published index has no entry added by that save as long as the
\* Pointer Store does not hold the URL which that save's index write returned
\* (when the index write landed on the URL the Pointer Store holds, the entry
\* is published although save threw).
C5_OrphanUnlessIndexUrlPublished ==
    \A p \in Procs :
        PersistFailed(p) =>
            /\ DocumentInPlace(p) \/ WrittenOver(p)
            /\ pointer # loc[p].newIndexUrl => ~HasEntryOf(Published, op[p].by)

\* C5 witness: the pointer write of a save failed after its index write had
\* succeeded; the document is in place and the published index, written by
\* another save, lacks its entry.
C5_Witness ==
    \E p \in Procs :
        /\ PersistFailed(p) /\ PointerWriteFailed(p)
        /\ DocumentInPlace(p)
        /\ Len(Published) > 0
        /\ ~HasEntryOf(Published, op[p].by)

\* C5, the case of the exception: the pointer write of a save of the id
\* "index" failed after its index write had replaced its document.
C5_ReplacedCase ==
    \E p \in Procs :
        /\ PersistFailed(p) /\ PointerWriteFailed(p)
        /\ op[p].menuId = IndexId
        /\ ~DocumentInPlace(p) /\ WrittenOver(p)

\* the documents the Blob Store holds
AllDocs == {Body(blob[u]) : u \in DOMAIN blob}
\* the invocation of p fetched the document at url, and the fetch failed
FetchFailed(p, url) ==
    \E k \in 1..Len(loc[p].calls) : loc[p].calls[k] = Call("getJsonFromBlob", url, FALSE)
Matches(entry, menuId) ==
    entry.id = menuId \/ Includes(entry.id, menuId) \/ Includes(menuId, entry.id)

\* C6: getById never raises; it returns a stored document, whole, or absence, and it
\* returns absence when the index is empty, when no entry matches, when the
\* matched entry has no stored URL and when the fetch of the matched entry's
\* URL fails.
C6_GetMenuNeverRaises ==
    \A p \in Procs :
        op[p].name = "getMenu" =>
            /\ ret[p] # Thrown
            /\ pc[p] = "done" =>
                /\ ret[p] = Null \/ (ret[p].kind = "value" /\ ret[p].v \in AllDocs)
                /\ Len(Published) = 0 => ret[p] = Null
                /\ (\A i \in 1..Len(Published) : ~Matches(Published[i], op[p].menuId))
                    => ret[p] = Null
                /\ \A i \in 1..Len(Published) :
                    IsFirstMatch(Published, i, op[p].menuId) =>
                        /\ Published[i].menuDataUrl = NoUrl => ret[p] = Null
                        /\ FetchFailed(p, Published[i].menuDataUrl) => ret[p] = Null

\* C6 witness: the fetch of the matched entry's document failed and getMenu
\* returned absence, with a second matching entry behind the first.
C6_Witness ==
    \E p \in Procs :
        /\ Done(p, "getMenu") /\ ret[p] = Null
        /\ Len(Published) = 2
        /\ IsFirstMatch(Published, 1, op[p].menuId)
        /\ Matches(Published[2], op[p].menuId)
        /\ Published[2].menuDataUrl # Published[1].menuDataUrl
        /\ FetchFailed(p, Published[1].menuDataUrl)

\* the invocation of p got the index document from the stores
LoadedIndex(p) ==
    /\ Len(loc[p].calls) >= 2
    /\ loc[p].calls[1] = Call("redis.get", NoUrl, TRUE)
    /\ loc[p].calls[2] = Call("getJsonFromBlob", pointer, TRUE)

\* C7: getById(q) resolves to the first entry in index order whose id equals
\* q, contains q or is contained in q, and returns the document stored at
\* that entry's URL; no later matching entry is ever used, also when the
\* first match has no URL or its fetch fails.
C7_FirstMatchOnly ==
    \A p \in Procs :
        Done(p, "getMenu") =>
            /\ ret[p].kind = "value" =>
                \E i \in 1..Len(Published) :
                    /\ IsFirstMatch(Published, i, op[p].menuId)
                    /\ ret[p].v = Body(blob[Published[i].menuDataUrl])
            /\ \A i \in 1..Len(Published) :
                IsFirstMatch(Published, i, op[p].menuId) =>
                    /\ \A k \in 3..Len(loc[p].calls) :
                        loc[p].calls[k].url = Published[i].menuDataUrl
                    /\ LoadedIndex(p) /\ Len(loc[p].calls) = 3 /\ loc[p].calls[3].ok
                        => ret[p] = Value(Body(blob[Published[i].menuDataUrl]))

\* C7 witness: two entries under the same id pointing at different documents;
\* the lookup by that id returned the document of the first.
C7_Witness ==
    \E p \in Procs :
        /\ Done(p, "getMenu")
        /\ Len(Published) >= 2
        /\ Published[1].id = op[p].menuId /\ Published[2].id = op[p].menuId
        /\ Published[1].menuDataUrl \in DOMAIN blob
        /\ Published[2].menuDataUrl \in DOMAIN blob
        /\ Body(blob[Published[1].menuDataUrl]) # Body(blob[Published[2].menuDataUrl])
        /\ ret[p] = Value(Body(blob[Published[1].menuDataUrl]))

\* the entry's stored duration lies outside [0.8 x target, 1.2 x target]
OutsideWindow(entry, target) ==
    LET stored == ParseInt(entry.metadata.duration)
    IN  ~stored.has \/ 5 * stored.v < 4 * target \/ 5 * stored.v > 6 * target

\* C8: whatever the query, no entry whose stored duration lies outside
\* [0.8 x targetDuration, 1.2 x targetDuration] is fetched by search or
\* appears in its results.
C8_HardDurationFilter ==
    \A p \in Procs :
        op[p].name = "search" =>
            \A i \in 1..Len(loc[p].indexData) :
                OutsideWindow(loc[p].indexData[i], op[p].duration) =>
                    /\ i \notin loc[p].fetched
                    /\ \A k \in 1..Len(loc[p].from) : loc[p].from[k] # i
                    /\ pc[p] = "searchFetch" => loc[p].i # i

\* C8 witness: a search returned a result from an index that has an entry
\* outside the window ahead of one inside it.
C8_Witness ==
    \E p \in Procs :
        /\ Got(p, "search") /\ Len(ret[p].v) = 1
        /\ Len(loc[p].indexData) = 2
        /\ OutsideWindow(loc[p].indexData[1], op[p].duration)
        /\ loc[p].from = <<2>>

\* the score a result carries, Absent when it carries none
ScoreOf(result) == IF "score" \in DOMAIN result THEN Val(result.score) ELSE Absent

\* C9 as stated: search returns at most 5 results, ordered by non-increasing
\* score (the order is stated of the results that carry a score).
C9_AtMostFiveSorted ==
    \A p \in Procs :
        Got(p, "search") =>
            /\ Len(ret[p].v) <= 5
            /\ \A k \in 1..(Len(ret[p].v) - 1) :
                ScoreOf(ret[p].v[k]).has /\ ScoreOf(ret[p].v[k + 1]).has
                    => ScoreOf(ret[p].v[k]).v >= ScoreOf(ret[p].v[k + 1]).v

\* Of a finished search: every entry inside the window was fetched, in index
\* order, whatever became of the fetches before it, and the results are the
\* documents of exactly the entries inside the window whose fetch succeeded,
\* in index order.
IsolatedFailures(p) ==
    LET menus == loc[p].indexData
        inside == {i \in 1..Len(menus) : ~OutsideWindow(menus[i], op[p].duration)}
        FetchOf(i) == loc[p].calls[2 + Cardinality({j \in inside : j <= i})]
        kept == {i \in inside : FetchOf(i).ok}
    IN  /\ Len(menus) > 0 => Len(loc[p].calls) = 2 + Cardinality(inside)
        /\ \A i \in inside : FetchOf(i).url = menus[i].menuDataUrl
        /\ {loc[p].from[k] : k \in 1..Len(loc[p].from)} = kept
        /\ \A k \in 1..(Len(loc[p].from) - 1) : loc[p].from[k] < loc[p].from[k + 1]
        /\ Len(ret[p].v) = Len(loc[p].from)
        /\ \A k \in 1..Len(ret[p].v) :
            ret[p].v[k] = Body(blob[menus[loc[p].from[k]].menuDataUrl])

\* C10, the part that holds of searchSimilarMenus: a failed fetch removes
\* the entry it was for and nothing else.
C10_FailureIsolation == \A p \in Procs : Got(p, "search") => IsolatedFailures(p)

\* C10, a case of that part: two entries inside the window, the fetch of the
\* first failed and the second is the one result.
C10_IsolationCase ==
    \E p \in Procs :
        /\ Got(p, "search")
        /\ Len(loc[p].indexData) = 2
        /\ loc[p].fetched = {1, 2}
        /\ loc[p].from = <<2>>
        /\ ret[p].v = <<SprintSet>>
        /\ op[p].query = <<"A">> /\ op[p].duration = 30

\* C10 as stated: an entry is in the results only if its fetch succeeded and
\* its score is at least 3; a failed fetch removes only that entry; a menu
\* saved with duration 30 and load level A is included by search("A", 30)
\* with a score of at least 3.
C10_IsolationWithScore ==
    \A p \in Procs :
        Got(p, "search") =>
            /\ IsolatedFailures(p)
            /\ \A k \in 1..Len(ret[p].v) :
                ScoreOf(ret[p].v[k]).has /\ ScoreOf(ret[p].v[k]).v >= 3

\* the load-level alphabet and the load-level tokens a query holds (a query
\* of the model is one word)
LoadLevelTokens == {<<"A">>, <<"B">>, <<"C">>}
QueryLevels(query) == {query} \cap LoadLevelTokens
\* String.prototype.split(','), as a set of the parts
RECURSIVE SplitAt(_, _, _)
SplitAt(s, i, part) ==
    IF i > Len(s) THEN <<part>>
    ELSE IF s[i] = "," THEN <<part>> \o SplitAt(s, i + 1, <<>>)
    ELSE SplitAt(s, i + 1, Append(part, s[i]))
Split(s) == IF Len(s) = 0 THEN <<>> ELSE SplitAt(s, 1, <<>>)
StoredLevels(entry) ==
    LET parts == Split(entry.metadata.loadLevels)
    IN  {parts[k] : k \in 1..Len(parts)}
Distance(a, b) == IF a >= b THEN a - b ELSE b - a
\* the part of the score the claim fixes: the duration match and the
\* load-level overlap
DurationAndLevelScore(entry, query, target) ==
    LET menuDuration == ParseInt(entry.metadata.duration).v
        d == Distance(target, menuDuration)
    IN  3 + (IF d <= 5 THEN 2 ELSE IF d <= 10 THEN 1 ELSE 0)
          + 2 * Cardinality(QueryLevels(query) \cap StoredLevels(entry))

\* C11 as stated: search returns {document, score} pairs; the score of an
\* entry inside the window contains 3, plus 2 when the durations are within 5
\* of each other, else plus 1 when within 10, plus 2 for each load-level token
\* of the query that is among the entry's stored load levels.
C11_AdditiveScore ==
    \A p \in Procs :
        Got(p, "search") =>
            \A k \in 1..Len(ret[p].v) :
                LET result == ret[p].v[k]
                    entry == loc[p].indexData[loc[p].from[k]]
                IN  /\ DOMAIN result = {"document", "score"}
                    /\ result.document = Body(blob[entry.menuDataUrl])
                    /\ result.score >= DurationAndLevelScore(entry, op[p].query, op[p].duration)

\* the index a finished read got from getIndexData
GotIndex(p) == loc[p].indexData
DistinctTimestamps(menus) ==
    \A i, j \in 1..Len(menus) :
        i # j => menus[i].metadata.createdAt # menus[j].metadata.createdAt

\* C12: for an index whose entries have distinct creation timestamps,
\* listHistory returns exactly one record per index entry, the entry's id
\* merged with its metadata, ordered strictly by descending creation
\* timestamp; the index it reads is the published one when its load succeeds
\* (it returns whenever getIndexData gave it a list of entries).
C12_HistorySortedDescending ==
    \A p \in Procs :
        Done(p, "history") /\ ~loc[p].noMenus =>
            LET menus == GotIndex(p)
                records == ret[p].v
            IN  /\ ret[p].kind = "value"
                /\ LoadedIndex(p) => menus = Published
                /\ DistinctTimestamps(menus) =>
                    /\ Len(records) = Len(menus)
                    /\ \A i \in 1..Len(menus) :
                        Cardinality({k \in 1..Len(records) :
                            /\ records[k].id = menus[i].id
                            /\ records[k].createdAt = menus[i].metadata.createdAt
                            /\ [f \in DOMAIN menus[i].metadata |-> records[k][f]]
                                    = menus[i].metadata}) = 1
                    /\ \A k \in 1..(Len(records) - 1) :
                        records[k].createdAt > records[k + 1].createdAt

\* C12 witness: a history of three entries with distinct timestamps that the
\* index holds in another order than most recent first.
C12_Witness ==
    \E p \in Procs :
        /\ Got(p, "history") /\ LoadedIndex(p)
        /\ Len(Published) = 3 /\ DistinctTimestamps(Published)
        /\ Published[1].metadata.createdAt < Published[3].metadata.createdAt
        /\ Published[3].metadata.createdAt < Published[2].metadata.createdAt
        /\ Len(ret[p].v) = 3
        /\ ret[p].v[1].id = Published[2].id

ReadNames == {"getMenu", "history", "search"}
\* what a read returns when it finds nothing
NothingFound(name) == IF name = "getMenu" THEN Null ELSE Value(<<>>)
\* the read of p got no index: the Pointer Store read failed or holds no
\* URL, or the fetch of the index document failed
NoIndex(p) ==
    /\ Len(loc[p].calls) >= 1
    /\ \/ loc[p].calls[1] = Call("redis.get", NoUrl, FALSE)
       \/ loc[p].calls[1] = Call("redis.get", NoUrl, TRUE) /\ pointer = NoUrl
       \/ /\ Len(loc[p].calls) >= 2
          /\ loc[p].calls[2] = Call("getJsonFromBlob", pointer, FALSE)

\* C13: when the Pointer Store holds no index URL or the index document fetch
\* fails, getById returns absence, listHistory and search return an empty
\* list, none of them propagates an exception and none of them fetches a
\* menu document.  (Outside these cases a read throws only when the document
\* fetched as the index has no menus.)
C13_ReadsDegradeToNothing ==
    \A p \in Procs :
        op[p].name \in ReadNames =>
            /\ ret[p] = Thrown => loc[p].noMenus /\ ~NoIndex(p)
            /\ NoIndex(p) =>
                /\ pc[p] = "done"
                /\ ret[p] # Thrown
                /\ ret[p] = NothingFound(op[p].name)
                /\ \A k \in 1..Len(loc[p].calls) :
                    loc[p].calls[k].fn = "getJsonFromBlob" => loc[p].calls[k].url = pointer

\* C13 witness: the index fetch of a search failed while the published index
\* has an entry inside the window of the search; the search returned an
\* empty list.
C13_Witness ==
    \E p \in Procs :
        /\ Got(p, "search") /\ NoIndex(p)
        /\ loc[p].calls[1].ok
        /\ Len(Published) >= 1
        /\ ~OutsideWindow(Published[1], op[p].duration)
        /\ ret[p] = Value(<<>>)

\* where the invocation of p calls getIndexData: the place of redis.get
\* among its store calls
GetAt(p) == IF op[p].name = "save" THEN 2 ELSE 1
\* getIndexData has returned to the invocation of p
LoadOver(p) ==
    /\ op[p].name \in {"save", "getMenu", "history"}
    /\ Len(loc[p].calls) >= GetAt(p)
    /\ pc[p] # "fetchIndex"
\* getIndexData went on to fetch the index document
Fetched(p) ==
    /\ Len(loc[p].calls) > GetAt(p)
    /\ loc[p].calls[GetAt(p) + 1].fn = "getJsonFromBlob"
    /\ loc[p].calls[GetAt(p) + 1].url = loc[p].indexFileUrl
\* the list getIndexData returned: saveMenu has pushed its entry onto it
LoadResult(p) ==
    IF op[p].name = "save"
    THEN SubSeq(loc[p].indexData, 1, Len(loc[p].indexData) - 1)
    ELSE loc[p].indexData

\* what getIndexData returned to p is a list of entries: the empty one when
\* it fetched no document, the stored one when its fetch succeeded
ReturnedMenus(p) ==
    /\ ~Fetched(p) \/ ~loc[p].calls[GetAt(p) + 1].ok =>
        /\ LoadResult(p) = EmptyIndex
        /\ pc[p] = "done" => ret[p] # Pending
    /\ Fetched(p) /\ loc[p].calls[GetAt(p) + 1].ok =>
        IsPrefix(LoadResult(p), blob[loc[p].indexFileUrl].menus)

\* C14 as stated: load() never raises to its caller; it returns the empty
\* index when the Pointer Store has no URL, when the Pointer Store read fails
\* and when the fetch of the index fails or yields no document; in every case
\* the value it returns has a menus list (the stored one when the fetch
\* succeeds), so that no caller fails on it.
C14_LoadNeverRaises ==
    \A p \in Procs :
        LoadOver(p) =>
            /\ ~loc[p].noMenus
            /\ ret[p] = Thrown =>
                op[p].name = "save" /\ (IndexWriteFailed(p) \/ PointerWriteFailed(p))
            /\ ReturnedMenus(p)

\* C14, the part that holds of getIndexData: it never raises, and what it
\* returns is the empty index or the document it fetched, which is a list of
\* entries unless the document stored at the URL has no menus.
C14_LoadReturnsFetched ==
    \A p \in Procs :
        LoadOver(p) =>
            IF loc[p].noMenus
            THEN /\ Fetched(p) /\ loc[p].calls[GetAt(p) + 1].ok
                 /\ blob[loc[p].indexFileUrl].type = "menu"
                 /\ pc[p] = "done"
                 /\ ret[p] = IF op[p].name = "getMenu" THEN Null ELSE Thrown
            ELSE /\ ret[p] = Thrown =>
                    op[p].name = "save" /\ (IndexWriteFailed(p) \/ PointerWriteFailed(p))
                 /\ ReturnedMenus(p)

\* the store calls of p that fetch a menu document: the fetches other than
\* the one getIndexData makes right after its redis.get
MenuFetches(p) ==
    {k \in 1..Len(loc[p].calls) :
        /\ loc[p].calls[k].fn = "getJsonFromBlob"
        /\ ~(k > 1 /\ loc[p].calls[k - 1].fn = "redis.get")}
\* the store calls of a save, in order, with and without the index read
SaveCallsWithRead ==
    <<"saveJsonToBlob", "redis.get", "getJsonFromBlob", "saveJsonToBlob", "redis.set">>
SaveCallsNoRead == <<"saveJsonToBlob", "redis.get", "saveJsonToBlob", "redis.set">>
CallNames(p) == [k \in 1..Len(loc[p].calls) |-> loc[p].calls[k].fn]
\* save issues one document write, one pointer read, at most one index
\* read, one index write and one pointer write, in that order
SaveCallsInOrder(p) ==
    /\ IsPrefix(CallNames(p), SaveCallsWithRead) \/ IsPrefix(CallNames(p), SaveCallsNoRead)
    /\ Len(loc[p].calls) >= 1 => loc[p].calls[1].url = Url(MenuPath(op[p].menuId), 0)
    /\ ret[p] = Void => CallNames(p) \in {SaveCallsWithRead, SaveCallsNoRead}
\* a read issues one pointer read and at most one index read
OneLoad(p) ==
    /\ Cardinality({k \in 1..Len(loc[p].calls) : loc[p].calls[k].fn = "redis.get"}) <= 1
    /\ Cardinality({k \in 1..Len(loc[p].calls) :
            loc[p].calls[k].fn = "getJsonFromBlob" /\ k \notin MenuFetches(p)}) <= 1

\* C15 as stated: no retry; getById issues at most one Blob Store fetch for
\* a menu document (of both definitions of getMenu), and save issues exactly
\* one document write, one pointer read, at most one index read, one index
\* write and one pointer write, in that order.
C15_NoRetry ==
    \A p \in Procs :
        /\ op[p].name = "save" => SaveCallsInOrder(p)
        /\ op[p].name \in {"getMenu", "getMenuDirect", "history", "search"} => OneLoad(p)
        /\ op[p].name \in {"getMenu", "getMenuDirect"} => Cardinality(MenuFetches(p)) <= 1

\* C15, the part that holds: save, listHistory, search and the getMenu of
\* lines 140-189.
C15_NoRetryButDirectAccess ==
    \A p \in Procs :
        /\ op[p].name = "save" => SaveCallsInOrder(p)
        /\ op[p].name \in {"getMenu", "getMenuDirect", "history", "search"} => OneLoad(p)
        /\ op[p].name = "getMenu" => Cardinality(MenuFetches(p)) <= 1
        /\ op[p].name = "getMenuDirect" => Cardinality(MenuFetches(p)) <= 3

\* the values the claim expects in place of the strings
JsNumber(n) == [typeof |-> "number", value |-> n]
JsArray(a) == [typeof |-> "array", value |-> a]

\* C16 as stated: in each record listHistory returns, the load levels are the
\* list obtained by splitting the comma-joined string, and duration and
\* total time are numbers, the values of the strings the menu was saved
\* with.
C16_HistoryDecodes ==
    \A p \in Procs :
        Got(p, "history") =>
            \A k \in 1..Len(ret[p].v) :
                LET item == ret[p].v[k]
                    fields == EncodedFields(item)
                IN  /\ fields.loadLevels.typeof = "array"
                    /\ fields.loadLevels = JsArray(Split(item.loadLevels))
                    /\ fields.duration.typeof = "number"
                    /\ fields.duration = JsNumber(ParseInt(item.duration).v)
                    /\ fields.totalTime.typeof = "number"
                    /\ fields.totalTime = JsNumber(ParseInt(item.totalTime).v)

\* the index documents the Blob Store holds
IndexUrls == {u \in DOMAIN blob : blob[u].type = "index"}
\* the entry names a URL of the Blob Store that a write under the path of the
\* entry's id returned (what the store holds there may have been replaced)
Backed(entry) ==
    /\ entry.menuDataUrl \in DOMAIN blob
    /\ entry.menuDataUrl.path = MenuPath(entry.id)
DocumentWriteFailed(p) ==
    /\ op[p].name = "save"
    /\ Len(loc[p].calls) >= 1
    /\ ~loc[p].calls[1].ok

\* C17: no dangling published entry; every entry of every index document
\* written, the published one among them, carries the URL that a completed
\* document write of its id returned (documents are never removed), and
\* a save whose document write failed has thrown without touching the index
\* or the pointer.
C17_NoDanglingEntry ==
    /\ \A i \in 1..Len(Published) : Backed(Published[i])
    /\ \A u \in IndexUrls : \A i \in 1..Len(blob[u].menus) : Backed(blob[u].menus[i])
    /\ \A p \in Procs :
        DocumentWriteFailed(p) =>
            /\ pc[p] = "done" /\ ret[p] = Thrown
            /\ Len(loc[p].calls) = 1
            /\ \A k \in 1..Len(persisted) : persisted[k][2] # op[p].by
            /\ \A u \in IndexUrls : ~HasEntryOf(blob[u].menus, op[p].by)

\* C17 witness: an index is published whose entry carries a URL other than
\* the nominal one, and a later save of the same id has thrown on its
\* document write.
C17_Witness ==
    \E p \in Procs :
        /\ DocumentWriteFailed(p) /\ Done(p, "save")
        /\ Len(Published) = 1
        /\ Published[1].menuDataUrl.sfx > 0
        /\ Published[1].id = op[p].menuId

AllReadNames == ReadNames \cup {"getMenuDirect"}
\* the step is a step of a read operation
ReadStep ==
    \E p \in Procs :
        /\ pc'[p] # pc[p]
        /\ op[p].name \in AllReadNames \/ op'[p].name \in AllReadNames

\* C18: the steps of getById, listHistory and search, whether they succeed or
\* fail, leave the Pointer Store value and every Blob Store document
\* unchanged.
C18_ReadsLeaveStores == [][ReadStep => pointer' = pointer /\ blob' = blob]_vars

\* C18 witness: a search has finished with one fetch failed and one result,
\* and the stores hold the index it read.
C18_Witness ==
    \E p \in Procs :
        /\ Got(p, "search") /\ LoadedIndex(p)
        /\ Len(ret[p].v) = 1
        /\ \E k \in 3..Len(loc[p].calls) : ~loc[p].calls[k].ok
        /\ blob[pointer].menus = loc[p].indexData

\* no save is in progress
NoSaveRunning == \A p \in Procs : op[p].name = "save" => pc[p] = "done"
\* the saves called so far have run one after another, all have returned,
\* and the published index holds their entries in the order of the calls,
\* the last carrying the id and the returned URL of the save that just
\* returned; a listHistory that has returned has one record per save
Accumulated ==
    /\ NoSaveRunning =>
        /\ Len(Published) = saves
        /\ \A k \in 1..Len(Published) : Published[k].by = k
    /\ \A p \in Procs :
        /\ Done(p, "save") =>
            /\ ret[p] = Void
            /\ Published[saves].id = op[p].menuId
            /\ Published[saves].menuDataUrl = loc[p].menuDataUrl
        /\ Done(p, "history") => Len(ret[p].v) = saves

\* C19 as stated: starting from an unset pointer, after n saves run one after another
\* with no store call failing, the published index has exactly n entries,
\* the k-th carrying the id and returned URL of the k-th save (an entry, once
\* published, stays as it is), and listHistory returns exactly n records.
C19_SequentialSavesAccumulate ==
    [][~faults => IsPrefix(Published, Published') /\ Accumulated']_vars

\* no save has written its document over the published index: the URL the
\* Pointer Store holds, if any, is that of an index document
PointerNamesIndex == pointer = NoUrl \/ blob[pointer].type = "index"

\* C19, the part that holds: with the Pointer Store client constructed and
\* no save writing its document over the published index, the saves
\* accumulate.
C19_AccumulateOnPointerStore ==
    [][~faults /\ redis = "upstash" /\ PointerNamesIndex'
        => IsPrefix(Published, Published') /\ Accumulated']_vars

\* C19, a case of that part: after two saves of different ids, run one after
\* another with no failure, listHistory returned two records.
C19_AccumulateCase ==
    \E p \in Procs :
        /\ ~faults /\ Got(p, "history")
        /\ saves = 2 /\ Len(Published) = 2
        /\ Published[1].id # Published[2].id
        /\ Len(ret[p].v) = 2
====
